---- MODULE Spec2Model ----
(***************************************************************************)
(* dir2opds, internal/service/service.go: the OPDS handler.                *)
(*                                                                         *)
(* State: the directory tree under OPDS.DirRoot, the package-level slice   *)
(* `files` (slice header + backing arrays), and for every request being    *)
(* served the position of its handler and the handler's locals.            *)
(*                                                                         *)
(* Spec      requests are served one at a time (no overlap).               *)
(* ConcSpec  net/http serves requests on concurrent goroutines: the        *)
(*           handlers interleave at every access to `files`.               *)
(***************************************************************************)
EXTENDS Integers, Sequences, FiniteSets, TLC

\* ------------------------------------------------------------------ bounds
\* modification times are 1..MaxModTime
MaxModTime == 2
\* number of goroutines serving requests at once under ConcSpec
NProcs == 2
\* number of requests ConcSpec accepts while another one is being served
MaxOverlaps == 1

\* --------------------------------------------------------------- constants
pathTypeFile == 0
pathTypeDirOfDirs == 1
pathTypeDirOfFiles == 2
\* the sentinel the model uses for os.Stat's nil FileInfo
pathTypeNil == 3

navigationType == "application/atom+xml;profile=opds-catalog;kind=navigation"
acquisitionType == "application/atom+xml;profile=opds-catalog;kind=acquisition"
relSubsection == "subsection"
relThumbnail == "http://opds-spec.org/image/thumbnail"
relAcquisition == "http://opds-spec.org/acquisition"

\* ------------------------------------------------------- the directory tree
\* A path is the sequence of its segments below DirRoot; <<>> is DirRoot.
DirRoot == <<>>
\* The paths that may exist under DirRoot.
Nodes ==
  { <<"a.epub">>, <<"c.png">>, <<"sub">>, <<"sub", "b.epub">> }

Absent == [kind |-> "absent", mtime |-> 0]
Dir == [kind |-> "dir", mtime |-> 0]
File(t) == [kind |-> "file", mtime |-> t]
NodeStates == {Absent, Dir} \cup { File(t) : t \in 1..MaxModTime }

Parent(p) == SubSeq(p, 1, Len(p) - 1)
Base(p) == p[Len(p)]

\* byte order of the names (strings.Compare, and the order of os.ReadDir)
NameRank(n) ==
  CASE n = "a.epub" -> 1
    [] n = "b.epub" -> 2
    [] n = "c.png" -> 3
    [] n = "sub" -> 4

\* filepath.Ext
Ext(n) ==
  CASE n = "a.epub" -> ".epub"
    [] n = "b.epub" -> ".epub"
    [] n = "c.png" -> ".png"
    [] n = "c.jpg" -> ".jpg"
    [] n = "c.jpeg" -> ".jpeg"
    [] n = "c.gif" -> ".gif"
    [] OTHER -> ""

\* mime.TypeByExtension, with the types init() adds
TypeByExtension(e) ==
  CASE e = ".epub" -> "application/epub+zip"
    [] e = ".png" -> "image/png"
    [] OTHER -> ""

\* os.Stat. DirRoot is taken to exist and to be a directory; every other path
\* is what the tree says.
Stat(tree, p) == IF p = DirRoot THEN Dir ELSE IF p \in Nodes THEN tree[p] ELSE Absent

\* a tree is well formed when everything present lies in a directory
WellFormed(tree) ==
  \A p \in Nodes : tree[p] # Absent => Stat(tree, Parent(p)).kind = "dir"

\* os.ReadDir / fs.ReadDir: the entries of directory d, sorted by name
RECURSIVE SortByName(_)
SortByName(S) ==
  IF S = {} THEN <<>>
  ELSE LET m == CHOOSE x \in S : \A y \in S : NameRank(Base(x)) <= NameRank(Base(y))
       IN <<m>> \o SortByName(S \ {m})

ReadDir(tree, d) ==
  SortByName({ p \in Nodes : Parent(p) = d /\ tree[p] # Absent })

isFile(fi) == fi.kind # "dir"

\* a classification that looks below the immediate children: a directory with
\* a file anywhere under it is a directory of files
getPathTypeDeep(tree, dirpath) ==
  LET fi == Stat(tree, dirpath)
  IN IF fi = Absent THEN pathTypeNil
     ELSE IF isFile(fi) THEN pathTypeFile
     ELSE IF \E n \in Nodes : /\ Len(dirpath) < Len(n)
                              /\ SubSeq(n, 1, Len(dirpath)) = dirpath
                              /\ tree[n].kind = "file"
          THEN pathTypeDirOfFiles
     ELSE pathTypeDirOfDirs

\* getPathType; os.Stat of a missing path gives a nil FileInfo and isFile(nil)
\* dereferences it: pathTypeNil stands for that panic.
getPathType(tree, dirpath) ==
  LET fi == Stat(tree, dirpath)
      fis == ReadDir(tree, dirpath)
  IN IF fi = Absent THEN pathTypeNil
     ELSE IF isFile(fi) THEN pathTypeFile
     ELSE IF \E i \in 1..Len(fis) : isFile(Stat(tree, fis[i])) THEN pathTypeDirOfFiles
     ELSE pathTypeDirOfDirs

\* getRel with the extension looked at before the path type
getRelExtFirst(name, pathType) ==
  IF Ext(name) \in {".png", ".jpg", ".jpeg", ".gif"} THEN relThumbnail
  ELSE IF pathType = pathTypeDirOfFiles \/ pathType = pathTypeDirOfDirs THEN relSubsection
  ELSE relAcquisition

\* getRel with the test for pathTypeDirOfDirs left out
getRelFilesOnly(name, pathType) ==
  IF pathType = pathTypeDirOfFiles THEN relSubsection
  ELSE IF Ext(name) \in {".png", ".jpg", ".jpeg", ".gif"} THEN relThumbnail
  ELSE relAcquisition

getRel(name, pathType) ==
  IF pathType = pathTypeDirOfFiles \/ pathType = pathTypeDirOfDirs THEN relSubsection
  ELSE IF Ext(name) \in {".png", ".jpg", ".jpeg", ".gif"} THEN relThumbnail
  ELSE relAcquisition

getType(name, pathType) ==
  CASE pathType = pathTypeFile -> TypeByExtension(Ext(name))
    [] pathType = pathTypeDirOfFiles -> acquisitionType
    [] pathType = pathTypeDirOfDirs -> navigationType
    [] OTHER -> TypeByExtension("xml")

\* ------------------------------------------------------------ the tree walk
\* filepath.WalkDir in lexical order; the callback ignores directories, so the
\* walk is the sequence of the non-directory entries it visits.
\* a walk that lists the non-directory children of p and does not descend
walkDirShallow(tree, p) ==
  SelectSeq(ReadDir(tree, p), LAMBDA x : isFile(Stat(tree, x)))

RECURSIVE walkDir(_, _), walkEntries(_, _)
walkDir(tree, p) ==
  IF Stat(tree, p).kind = "dir" THEN walkEntries(tree, ReadDir(tree, p)) ELSE <<p>>
walkEntries(tree, des) ==
  IF des = <<>> THEN <<>> ELSE walkDir(tree, Head(des)) \o walkEntries(tree, Tail(des))

\* the directories of the tree, DirRoot among them
Dirs(tree) == { d \in Nodes \cup {DirRoot} : Stat(tree, d).kind = "dir" }
\* path x lies below directory d
Below(d, x) == Len(d) < Len(x) /\ SubSeq(x, 1, Len(d)) = d
Range(s) == { s[i] : i \in 1..Len(s) }
\* the walk when ReadDir fails on the directories in bad: nothing below them
\* is visited
walkReadable(tree, bad) ==
  SelectSeq(walkDir(tree, DirRoot), LAMBDA x : \A d \in bad : ~Below(d, x))

\* BookFile{Name: file.Name(), Path: path, FileInfo: file}; of FileInfo the
\* handler reads Name() and ModTime() only.
BookFile(tree, p) == [Name |-> Base(p), Path |-> p, ModTime |-> tree[p].mtime]

\* ------------------------------------------------------------- sort.Slice
\* the less of sortByLatest with Before for After
lessLatestBefore(a, b) == a.ModTime < b.ModTime
\* sortedFiles[i].FileInfo.ModTime().After(sortedFiles[j].FileInfo.ModTime())
lessLatest(a, b) == a.ModTime > b.ModTime
\* strings.Compare(sortedFiles[i].Name, sortedFiles[j].Name) < 0
lessTitle(a, b) == NameRank(a.Name) < NameRank(b.Name)
less(by, a, b) == IF by = "latest" THEN lessLatest(a, b) ELSE lessTitle(a, b)

Swap(s, i, j) == [s EXCEPT ![i] = s[j], ![j] = s[i]]

\* sort.Slice on fewer than 12 elements is insertionSort_func:
\*   for i := a + 1; i < b; i++ { for j := i; j > a && less(j, j-1); j-- { swap } }
RECURSIVE sink(_, _, _), insertionSort(_, _, _)
sink(s, j, by) ==
  IF j > 1 /\ less(by, s[j], s[j - 1]) THEN sink(Swap(s, j, j - 1), j - 1, by) ELSE s
insertionSort(s, i, by) ==
  IF i > Len(s) THEN s ELSE insertionSort(sink(s, i, by), i + 1, by)
sortSlice(s, by) == insertionSort(s, 2, by)

\* ------------------------------------------------- slices and their arrays
\* A slice is (array, len); array 0 is the empty literal []BookFile{}.
MaxArr == NProcs + 1
ArrIds == 1..MaxArr
NilSlice == [arr |-> 0, len |-> 0]
NoArr == [cap |-> 0, data |-> <<>>]

Procs == 1..NProcs
SeqProcs == {1}

VARIABLES
  fs,         \* the tree under DirRoot: [Nodes -> NodeStates]
  files,      \* var files: the slice header
  heap,       \* the backing arrays: [ArrIds -> [cap, data]]
  pc,         \* where each handler is
  url,        \* urlPath of the request being served
  sortedFiles,\* the slice the range loop of /latest, /titles iterates
  idx,        \* the index of the range loop
  feed,       \* the entries added to feedBuilder so far
  todo,       \* what is left of the walk
  resp,       \* what the handler wrote or returned
  published,  \* history: files as the last completed walk left it
  unread,     \* the files the walk of this request could not read
  nreq        \* the number of requests accepted while another was being served

vars ==
  <<fs, files, heap, pc, url, sortedFiles, idx, feed, todo, resp, published,
    unread, nreq>>

\* the elements of slice s
Data(h, s) == IF s.arr = 0 THEN <<>> ELSE SubSeq(h[s.arr].data, 1, s.len)

\* arrays a range loop still holds
Pinned(v) == { v[p].arr : p \in Procs } \ {0}
\* unreferenced arrays are collected
Gc(h, live) == [a \in ArrIds |-> IF a \in live THEN h[a] ELSE NoArr]

\* append(s, x): in place when len < cap, else into a new array of twice the cap
growCap(c) == IF c = 0 THEN 1 ELSE 2 * c
appendSlice(h, s, x, pinned) ==
  IF s.arr # 0 /\ s.len < h[s.arr].cap
  THEN [heap |-> [h EXCEPT ![s.arr].data = SubSeq(@, 1, s.len) \o <<x>>],
        slice |-> [arr |-> s.arr, len |-> s.len + 1]]
  ELSE LET a == CHOOSE n \in ArrIds \ pinned : \A m \in ArrIds \ pinned : n <= m
           c == IF s.arr = 0 THEN 0 ELSE h[s.arr].cap
       IN [heap |-> [h EXCEPT ![a] = [cap |-> growCap(c), data |-> Data(h, s) \o <<x>>]],
           slice |-> [arr |-> a, len |-> s.len + 1]]

\* sort.Slice(sortedFiles, ...) where sortedFiles := files: sorts files' array
sortInPlace(h, s, by) ==
  IF s.arr = 0 THEN h
  ELSE [h EXCEPT ![s.arr].data =
          sortSlice(Data(h, s), by) \o SubSeq(@, s.len + 1, Len(@))]
sortByLatest(h, s) == sortInPlace(h, s, "latest")
sortByTitle(h, s) == sortInPlace(h, s, "titles")

\* ------------------------------------------------------------ the requests
\* req.URL.Path as a sequence of tokens: a path segment, "%2F" (an escaped
\* separator) or "%zz" (an invalid escape).
RawPaths ==
  { <<>>, <<"latest">>, <<"titles">>, <<"%zz">>, <<"%2F", "sub", "%2F", "b.epub">> }
    \cup Nodes

notSep(t) == t # "%2F"
\* url.PathUnescape with its error dropped
PathUnescapeNoErr(raw) == [err |-> FALSE, path |-> SelectSeq(raw, notSep)]
\* url.PathUnescape, then filepath.Join(s.DirRoot, urlPath), which cleans the
\* doubled separators an unescaped "%2F" leaves
PathUnescape(raw) ==
  IF \E i \in 1..Len(raw) : raw[i] = "%zz"
  THEN [err |-> TRUE, path |-> <<>>]
  ELSE [err |-> FALSE, path |-> SelectSeq(raw, notSep)]

\* ----------------------------------------------------------- the responses
NoResp == [status |-> "none", kind |-> "", entries |-> <<>>]
\* return err (line 68)
ErrResp == [status |-> "error", kind |-> "", entries |-> <<>>]
\* nil pointer dereference in isFile (line 215)
PanicResp == [status |-> "panic", kind |-> "", entries |-> <<>>]
\* http.ServeFile (line 145)
FileResp == [status |-> "file", kind |-> "", entries |-> <<>>]
\* lines 149-168 with the kind taken from the entries in place of line 152:
\* acquisition when a file is listed
FeedRespByEntries(tree, fPath, es) ==
  [status |-> "feed",
   kind |-> IF \E i \in 1..Len(es) : es[i].Rel # relSubsection
            THEN acquisitionType ELSE navigationType,
   entries |-> es]

\* lines 149-168 with the test of line 152 against pathTypeDirOfDirs
FeedRespDirOfDirs(tree, fPath, es) ==
  [status |-> "feed",
   kind |-> IF getPathType(tree, fPath) = pathTypeDirOfDirs
            THEN acquisitionType ELSE navigationType,
   entries |-> es]

\* http.ServeContent of the marshalled feed (lines 149-168)
FeedResp(tree, fPath, es) ==
  [status |-> "feed",
   kind |-> IF getPathType(tree, fPath) = pathTypeDirOfFiles
            THEN acquisitionType ELSE navigationType,
   entries |-> es]

\* the two entries of the root feed (lines 101-115)
rootEntries ==
  << [ID |-> <<"latest">>, Title |-> "Latest",
      Rel |-> getRel("latest", pathTypeDirOfDirs), Href |-> <<"latest">>,
      Type |-> getType("Latest", pathTypeDirOfDirs)],
     [ID |-> <<"titles">>, Title |-> "By Title",
      Rel |-> getRel("titles", pathTypeDirOfDirs), Href |-> <<"titles">>,
      Type |-> getType("By Title", pathTypeDirOfDirs)] >>

\* the entry of one BookFile in /latest and /titles (lines 119-128, 133-142)
bookEntry(u, f, pathType) ==
  [ID |-> u \o <<f.Name>>, Title |-> f.Name,
   Rel |-> getRel(Base(f.Path), pathType), Href |-> f.Path,
   Type |-> getType(Base(f.Path), pathType)]

\* the entries the handler adds for a directory that is neither of the three
\* routes: none (lines 144-149)
dirEntries(tree, fPath) == <<>>

\* --------------------------------------------------------------------- Init
TypeOK ==
  /\ fs \in [Nodes -> NodeStates] /\ WellFormed(fs)
  /\ files.arr \in 0..MaxArr /\ files.len \in Nat
  /\ pc \in [Procs -> {"idle", "walk", "range", "serve", "done"}]
  /\ unread \in [Procs -> SUBSET Nodes]

Init ==
  /\ fs \in { t \in [Nodes -> NodeStates] : WellFormed(t) }
  /\ files = NilSlice
  /\ heap = [a \in ArrIds |-> NoArr]
  /\ pc = [p \in Procs |-> "idle"]
  /\ url = [p \in Procs |-> <<>>]
  /\ sortedFiles = [p \in Procs |-> NilSlice]
  /\ idx = [p \in Procs |-> 0]
  /\ feed = [p \in Procs |-> <<>>]
  /\ todo = [p \in Procs |-> <<>>]
  /\ resp = [p \in Procs |-> NoResp]
  /\ published = <<>>
  /\ unread = [p \in Procs |-> {}]
  /\ nreq = 0

Idle == \A p \in Procs : pc[p] = "idle"
\* a goroutine is free and the server takes one more request
Accepts(p) ==
  /\ pc[p] = "idle"
  /\ IF Idle THEN nreq' = nreq ELSE nreq < MaxOverlaps /\ nreq' = nreq + 1

\* ------------------------------------------------------------ the file system
\* Someone creates, rewrites, removes a file or directory under DirRoot while
\* no request is being served.
FsChange ==
  /\ Idle
  /\ \E n \in Nodes, v \in NodeStates :
       /\ fs[n] # v
       /\ WellFormed([fs EXCEPT ![n] = v])
       /\ fs' = [fs EXCEPT ![n] = v]
  /\ UNCHANGED <<files, heap, pc, url, sortedFiles, idx, feed, todo, resp, published,
                 unread, nreq>>

\* ----------------------------------------------------------------- Handler
\* lines 65-69: the path does not unescape
BadPath(p) ==
  /\ Accepts(p)
  /\ \E raw \in RawPaths :
       /\ PathUnescape(raw).err
       /\ resp' = [resp EXCEPT ![p] = ErrResp]
       /\ url' = [url EXCEPT ![p] = raw]
  /\ pc' = [pc EXCEPT ![p] = "done"]
  /\ UNCHANGED <<fs, files, heap, sortedFiles, idx, feed, todo, published, unread>>

\* lines 82-84: urlPath == "/": files = []BookFile{} and the walk starts.
\* ReadDir may fail on some directories: WalkDir then calls the callback with
\* the directory and the error, the callback returns nil (line 98) and the
\* walk goes on without what is below them.
RootStart(p) ==
  /\ Accepts(p)
  /\ url' = [url EXCEPT ![p] = <<>>]
  /\ files' = NilSlice
  /\ heap' = Gc(heap, Pinned(sortedFiles))
  /\ \E bad \in SUBSET Dirs(fs) :
       /\ todo' = [todo EXCEPT ![p] = walkReadable(fs, bad)]
       /\ unread' = [unread EXCEPT ![p] = Range(walkDir(fs, DirRoot)) \ Range(todo'[p])]
  /\ pc' = [pc EXCEPT ![p] = IF todo'[p] = <<>> THEN "serve" ELSE "walk"]
  /\ published' = IF todo'[p] = <<>> THEN <<>> ELSE published
  /\ UNCHANGED <<fs, sortedFiles, idx, feed, resp>>

\* line 84 when os.Lstat(s.DirRoot) fails: WalkDir calls the callback with a
\* nil DirEntry and the error, and de.IsDir() (line 85) dereferences it
RootLstatFails(p) ==
  /\ Accepts(p)
  /\ url' = [url EXCEPT ![p] = <<>>]
  /\ files' = NilSlice
  /\ heap' = Gc(heap, Pinned(sortedFiles))
  /\ resp' = [resp EXCEPT ![p] = PanicResp]
  /\ pc' = [pc EXCEPT ![p] = "done"]
  /\ UNCHANGED <<fs, sortedFiles, idx, feed, todo, published, unread>>

\* lines 84-99: the callback on the next non-directory entry; de.Info() may
\* fail, and the entry is then skipped
WalkStep(p) ==
  /\ pc[p] = "walk"
  /\ todo[p] # <<>>
  /\ \E ok \in BOOLEAN :
       LET r == appendSlice(heap, files, BookFile(fs, Head(todo[p])), Pinned(sortedFiles))
       IN IF ok
          THEN /\ files' = r.slice
               /\ heap' = Gc(r.heap, Pinned(sortedFiles) \cup {r.slice.arr})
               /\ UNCHANGED unread
          ELSE /\ unread' = [unread EXCEPT ![p] = @ \cup {Head(todo[p])}]
               /\ UNCHANGED <<files, heap>>
  /\ todo' = [todo EXCEPT ![p] = Tail(@)]
  /\ pc' = [pc EXCEPT ![p] = IF todo'[p] = <<>> THEN "serve" ELSE "walk"]
  /\ published' = IF todo'[p] = <<>> THEN Data(heap', files') ELSE published
  /\ UNCHANGED <<fs, url, sortedFiles, idx, feed, resp, nreq>>

\* lines 116-118, 130-132: sortedFiles := files, sorted in place, and the range
\* loop starts over it
VirtualStart(p) ==
  /\ Accepts(p)
  /\ \E u \in {<<"latest">>, <<"titles">>} :
       /\ url' = [url EXCEPT ![p] = u]
       /\ heap' = IF u = <<"latest">> THEN sortByLatest(heap, files)
                  ELSE sortByTitle(heap, files)
  /\ sortedFiles' = [sortedFiles EXCEPT ![p] = files]
  /\ idx' = [idx EXCEPT ![p] = 1]
  /\ pc' = [pc EXCEPT ![p] = IF files.len = 0 THEN "serve" ELSE "range"]
  /\ UNCHANGED <<fs, files, feed, todo, resp, published, unread>>

\* lines 119-128, 133-142: one iteration of the range loop
RangeStep(p) ==
  /\ pc[p] = "range"
  /\ LET f == heap[sortedFiles[p].arr].data[idx[p]]
         pathType == getPathType(fs, f.Path)
     IN IF pathType = pathTypeNil
        THEN /\ resp' = [resp EXCEPT ![p] = PanicResp]
             /\ pc' = [pc EXCEPT ![p] = "done"]
             /\ sortedFiles' = [sortedFiles EXCEPT ![p] = NilSlice]
             /\ heap' = Gc(heap, Pinned(sortedFiles') \cup {files.arr})
             /\ feed' = [feed EXCEPT ![p] = <<>>]
             /\ idx' = [idx EXCEPT ![p] = 0]
        ELSE /\ feed' = [feed EXCEPT ![p] = Append(@, bookEntry(url[p], f, pathType))]
             /\ idx' = [idx EXCEPT ![p] = @ + 1]
             /\ pc' = [pc EXCEPT ![p] =
                         IF idx'[p] > sortedFiles[p].len THEN "serve" ELSE "range"]
             /\ UNCHANGED <<resp, sortedFiles, heap>>
  /\ UNCHANGED <<fs, files, url, todo, published, unread, nreq>>

\* lines 149-168 for "/", "/latest", "/titles": fPath is DirRoot
Serve(p) ==
  /\ pc[p] = "serve"
  /\ resp' = [resp EXCEPT ![p] =
                FeedResp(fs, DirRoot, IF url[p] = <<>> THEN rootEntries ELSE feed[p])]
  /\ pc' = [pc EXCEPT ![p] = "done"]
  /\ sortedFiles' = [sortedFiles EXCEPT ![p] = NilSlice]
  /\ heap' = Gc(heap, Pinned(sortedFiles') \cup {files.arr})
  /\ feed' = [feed EXCEPT ![p] = <<>>]
  /\ idx' = [idx EXCEPT ![p] = 0]
  /\ UNCHANGED <<fs, files, url, todo, published, unread, nreq>>

\* lines 144-168 for every other path
Other(p) ==
  /\ Accepts(p)
  /\ \E raw \in RawPaths :
       LET u == PathUnescape(raw)
           fPath == u.path
           pathType == getPathType(fs, fPath)
       IN /\ ~u.err
          /\ fPath \notin {<<>>, <<"latest">>, <<"titles">>}
          /\ url' = [url EXCEPT ![p] = fPath]
          /\ resp' = [resp EXCEPT ![p] =
                        IF pathType = pathTypeNil THEN PanicResp
                        ELSE IF pathType = pathTypeFile THEN FileResp
                        ELSE FeedResp(fs, fPath, dirEntries(fs, fPath))]
  /\ pc' = [pc EXCEPT ![p] = "done"]
  /\ UNCHANGED <<fs, files, heap, sortedFiles, idx, feed, todo, published, unread>>

\* the handler has returned; the goroutine takes the next request
Return(p) ==
  /\ pc[p] = "done"
  /\ pc' = [pc EXCEPT ![p] = "idle"]
  /\ resp' = [resp EXCEPT ![p] = NoResp]
  /\ url' = [url EXCEPT ![p] = <<>>]
  /\ unread' = [unread EXCEPT ![p] = {}]
  /\ UNCHANGED <<fs, files, heap, sortedFiles, idx, feed, todo, published, nreq>>

Handler(p) ==
  \/ BadPath(p)
  \/ RootStart(p)
  \/ WalkStep(p)
  \/ VirtualStart(p)
  \/ RangeStep(p)
  \/ Serve(p)
  \/ Other(p)
  \/ Return(p)

\* one request at a time
Next == FsChange \/ \E p \in SeqProcs : Handler(p)
Spec == Init /\ [][Next]_vars

\* one request at a time, and DirRoot itself may fail to be read
WalkNext == Next \/ \E p \in SeqProcs : RootLstatFails(p)
WalkSpec == Init /\ [][WalkNext]_vars

\* requests served concurrently, over a tree that stays as it is
ConcNext == \E p \in Procs : Handler(p)
ConcSpec == Init /\ [][ConcNext]_vars

\* ================================================================= claims
Count(s, x) == Cardinality({ i \in 1..Len(s) : s[i] = x })
\* a and b hold the same elements, each as often
SameBag(a, b) ==
  Len(a) = Len(b) /\ \A x \in Range(a) \cup Range(b) : Count(a, x) = Count(b, x)
Paths(bs) == [i \in 1..Len(bs) |-> bs[i].Path]
Hrefs(es) == [i \in 1..Len(es) |-> es[i].Href]
\* the first position of path x in a sequence of paths (0: not there)
Pos(ps, x) ==
  IF x \in Range(ps)
  THEN CHOOSE i \in 1..Len(ps) : ps[i] = x /\ \A j \in 1..(i - 1) : ps[j] # x
  ELSE 0
\* the modification time the last completed walk recorded for path x
PublishedModTime(x) == (CHOOSE f \in Range(published) : f.Path = x).ModTime

Latest == <<"latest">>
Titles == <<"titles">>
Virtual == {Latest, Titles}
\* the handler of p has answered request u
Answered(p, u) == pc[p] = "done" /\ url[p] = u
AnsweredFeed(p, u) == Answered(p, u) /\ resp[p].status = "feed"
\* p has answered a request for a path that is none of the three routes
AnsweredOther(p) ==
  pc[p] = "done" /\ url[p] \in Nodes

\* C1: a /latest or /titles handler reads `files` only when it holds exactly
\* the entries of a completed walk (the previous snapshot, or the new one once
\* its walk is over), never the emptied list or a prefix of a walk under way.
C1_ReadersSeeCompleteSnapshot ==
  [][\A p \in Procs :
       (pc[p] = "idle" /\ pc'[p] \in {"range", "serve"} /\ url'[p] \in Virtual)
         => SameBag(Data(heap, files), published)]_vars

\* C2: every /latest feed lists the snapshot's entries, each once, by
\* non-increasing modification time, and every /titles feed lists them, each
\* once, by non-decreasing name; with a.epub (T1) and sub/b.epub (T2 > T1),
\* /latest has b.epub before a.epub and /titles has a.epub before b.epub.
C2_SortedBijection ==
  \A p \in Procs :
    /\ AnsweredFeed(p, Latest) =>
         LET es == resp[p].entries
         IN /\ SameBag(Hrefs(es), Paths(published))
            /\ \A i, j \in 1..Len(es) :
                 i < j => PublishedModTime(es[i].Href) >= PublishedModTime(es[j].Href)
            /\ ( /\ <<"a.epub">> \in Range(Hrefs(es))
                 /\ <<"sub", "b.epub">> \in Range(Hrefs(es))
                 /\ PublishedModTime(<<"sub", "b.epub">>) > PublishedModTime(<<"a.epub">>) )
               => Pos(Hrefs(es), <<"sub", "b.epub">>) < Pos(Hrefs(es), <<"a.epub">>)
    /\ AnsweredFeed(p, Titles) =>
         LET es == resp[p].entries
         IN /\ SameBag(Hrefs(es), Paths(published))
            /\ \A i, j \in 1..Len(es) :
                 i < j => NameRank(es[i].Title) <= NameRank(es[j].Title)
            /\ ( /\ <<"a.epub">> \in Range(Hrefs(es))
                 /\ <<"sub", "b.epub">> \in Range(Hrefs(es)) )
               => Pos(Hrefs(es), <<"a.epub">>) < Pos(Hrefs(es), <<"sub", "b.epub">>)

\* a /latest feed that lists sub/b.epub, the newer, before a.epub, which the
\* walk found first
C2_Witness ==
  \E p \in Procs :
    /\ AnsweredFeed(p, Latest)
    /\ Paths(published) = << <<"a.epub">>, <<"sub", "b.epub">> >>
    /\ PublishedModTime(<<"sub", "b.epub">>) > PublishedModTime(<<"a.epub">>)
    /\ Hrefs(resp[p].entries) = << <<"sub", "b.epub">>, <<"a.epub">> >>

\* C3: in a /latest feed entries of equal modification time, and in a /titles
\* feed entries of equal name, come in the order the last walk found them.
C3_TiesInDiscoveryOrder ==
  \A p \in Procs :
    /\ AnsweredFeed(p, Latest) =>
         LET hs == Hrefs(resp[p].entries)
         IN \A i, j \in 1..Len(hs) :
              (i < j /\ PublishedModTime(hs[i]) = PublishedModTime(hs[j]))
                => Pos(Paths(published), hs[i]) < Pos(Paths(published), hs[j])
    /\ AnsweredFeed(p, Titles) =>
         LET hs == Hrefs(resp[p].entries)
         IN \A i, j \in 1..Len(hs) :
              (i < j /\ Base(hs[i]) = Base(hs[j]))
                => Pos(Paths(published), hs[i]) < Pos(Paths(published), hs[j])

\* C4: while no "/" request is rebuilding it, `files` holds what the last "/"
\* request published, in the order it published it.
C4_SnapshotNeverMutated ==
  (\A p \in Procs : pc[p] # "walk") => Data(heap, files) = published

\* C5: a request for a path with nothing on disk ends with an error returned
\* to the caller.
C5_MissingPathIsError ==
  \A p \in Procs :
    (AnsweredOther(p) /\ Stat(fs, url[p]) = Absent) => resp[p].status = "error"

\* C6: for a path that is none of the three routes the answer goes by the
\* path's classification: a file is streamed and no feed is written, a
\* directory of files gets an acquisition feed, a directory of directories a
\* navigation feed.
C6_KindByClassification ==
  \A p \in Procs :
    AnsweredOther(p) =>
      LET pathType == getPathType(fs, url[p])
      IN /\ pathType = pathTypeFile => resp[p] = FileResp
         /\ pathType = pathTypeDirOfFiles =>
              resp[p].status = "feed" /\ resp[p].kind = acquisitionType
         /\ pathType = pathTypeDirOfDirs =>
              resp[p].status = "feed" /\ resp[p].kind = navigationType

\* /sub, holding a file, answered with an acquisition feed
C6_Witness ==
  \E p \in Procs :
    /\ AnsweredOther(p) /\ url[p] = <<"sub">>
    /\ fs[<<"sub", "b.epub">>].kind = "file"
    /\ resp[p].status = "feed" /\ resp[p].kind = acquisitionType

\* C7: the feed of a directory has one entry per immediate child, in listing
\* order.
C7_OneEntryPerChild ==
  \A p \in Procs :
    (AnsweredOther(p) /\ resp[p].status = "feed") =>
      Hrefs(resp[p].entries) = ReadDir(fs, url[p])

\* C8: the feed of "/" has the two entries Latest (to /latest) and By Title
\* (to /titles), in this order, both subsection links of the navigation type,
\* and none of the indexed files.
C8_RootFeedTwoEntries ==
  \A p \in Procs :
    Answered(p, DirRoot) =>
      LET es == resp[p].entries
      IN /\ resp[p].status = "feed"
         /\ Len(es) = 2
         /\ es[1].Title = "Latest" /\ es[1].Href = Latest
         /\ es[2].Title = "By Title" /\ es[2].Href = Titles
         /\ \A i \in 1..2 : es[i].Rel = relSubsection /\ es[i].Type = navigationType
         /\ \A i \in 1..2 : es[i].Href \notin Range(Paths(Data(heap, files)))

\* "/" answered after a walk that indexed files
C8_Witness ==
  \E p \in Procs :
    Answered(p, DirRoot) /\ resp[p].status = "feed" /\ Len(published) >= 2

\* C9: "/" is answered with a navigation feed whatever DirRoot contains.
C9_RootIsNavigation ==
  \A p \in Procs :
    Answered(p, DirRoot) => resp[p].status = "feed" /\ resp[p].kind = navigationType

\* C10: /latest and /titles answer with a feed of the entries of the last
\* completed walk: none before the first "/", and afterwards the snapshot,
\* whatever the tree has become.
C10_VirtualListsSnapshot ==
  \A p \in Procs :
    (pc[p] = "done" /\ url[p] \in Virtual) =>
      /\ resp[p].status = "feed"
      /\ SameBag(Hrefs(resp[p].entries), Paths(published))

\* the non-directory files of the tree
FilesOf(tree) == { n \in Nodes : tree[n].kind = "file" }
NoDuplicates(ps) == \A i, j \in 1..Len(ps) : ps[i] = ps[j] => i = j

\* C11 as stated: once a / request has been answered, the snapshot holds one
\* entry for every non-directory file under the root and none for a
\* directory.
C11_SnapshotIsEveryFile ==
  \A p \in SeqProcs :
    Answered(p, DirRoot) =>
      /\ Range(Paths(Data(heap, files))) = FilesOf(fs)
      /\ NoDuplicates(Paths(Data(heap, files)))

\* C11, amended: once a / request has been answered, the snapshot holds
\* exactly one entry, with the file's name and modification time, for every
\* non-directory file under the root that the walk could read (none for a
\* file whose Info() failed or that lies below a directory ReadDir failed
\* on), no entry for a directory, and nothing of the previous snapshot.
C11_SnapshotIsReadableFiles ==
  \A p \in SeqProcs :
    Answered(p, DirRoot) =>
      LET snap == Data(heap, files)
      IN /\ Range(Paths(snap)) = FilesOf(fs) \ unread[p]
         /\ NoDuplicates(Paths(snap))
         /\ \A i \in 1..Len(snap) : snap[i] = BookFile(fs, snap[i].Path)
C11_Witness ==
  \E p \in SeqProcs :
    /\ Answered(p, DirRoot)
    /\ Paths(Data(heap, files)) = << <<"a.epub">>, <<"sub", "b.epub">> >>
    /\ fs[<<"c.png">>].kind = "file"
    /\ unread[p] = {<<"c.png">>}

\* C12: in every reachable state, concurrent / requests included, no two
\* entries of the snapshot have the same path.
C12_PathIsUniqueKey == NoDuplicates(Paths(Data(heap, files)))

\* the immediate children of x that exist
Children(tree, x) == { n \in Nodes : Parent(n) = x /\ tree[n] # Absent }

\* C13: every existing path is classified by itself and its immediate
\* children only: a non-directory is a File; a directory with at least one
\* non-directory immediate child is a DirectoryOfFiles, sub-directories or
\* not; a directory with sub-directories only, or empty, is a
\* DirectoryOfDirectories, whatever its sub-directories hold.
C13_ShallowClassification ==
  \A x \in Nodes \cup {DirRoot} :
    Stat(fs, x) # Absent =>
      getPathType(fs, x) =
        IF Stat(fs, x).kind = "file" THEN pathTypeFile
        ELSE IF \E k \in Children(fs, x) : fs[k].kind = "file" THEN pathTypeDirOfFiles
        ELSE pathTypeDirOfDirs
\* the root holds sub/ only, sub/ holds a file, and / was answered with a
\* navigation feed
C13_Witness ==
  \E p \in SeqProcs :
    /\ AnsweredFeed(p, DirRoot)
    /\ resp[p].kind = navigationType
    /\ Children(fs, DirRoot) = {<<"sub">>}
    /\ fs[<<"sub", "b.epub">>].kind = "file"
    /\ getPathType(fs, DirRoot) = pathTypeDirOfDirs
    /\ getPathType(fs, <<"sub">>) = pathTypeDirOfFiles

\* the names getRel is tried on, one for each image extension among them
RelNames == {"a.epub", "b.epub", "c.png", "c.jpg", "c.jpeg", "c.gif", "sub"}
ImageExts == {".png", ".jpg", ".jpeg", ".gif"}
PathTypes == {pathTypeFile, pathTypeDirOfDirs, pathTypeDirOfFiles}
\* the relation the claim gives a name of classification t
RelOf(name, t) ==
  IF t \in {pathTypeDirOfFiles, pathTypeDirOfDirs} THEN relSubsection
  ELSE IF Ext(name) \in ImageExts THEN relThumbnail
  ELSE relAcquisition

\* C14: the relation of an entry is thumbnail exactly for a File with
\* extension .png, .jpg, .jpeg or .gif, subsection exactly for a
\* DirectoryOfFiles or DirectoryOfDirectories whatever the extension of its
\* name, and acquisition for a File with any other extension; so is the
\* relation of every entry of a /latest or /titles feed, for the
\* classification of its path when the request is served.
C14_RelByClassification ==
  /\ \A name \in RelNames, t \in PathTypes :
       /\ getRel(name, t) = relThumbnail <=> (t = pathTypeFile /\ Ext(name) \in ImageExts)
       /\ getRel(name, t) = relSubsection <=> t \in {pathTypeDirOfFiles, pathTypeDirOfDirs}
       /\ (t = pathTypeFile /\ Ext(name) \notin ImageExts) => getRel(name, t) = relAcquisition
  /\ \A p \in SeqProcs, u \in Virtual :
       AnsweredFeed(p, u) =>
         \A i \in 1..Len(resp[p].entries) :
           LET e == resp[p].entries[i]
           IN e.Rel = RelOf(e.Title, getPathType(fs, e.Href))
\* a feed that lists c.png, now a directory, as a subsection beside a.epub as
\* an acquisition
C14_Witness ==
  \E p \in SeqProcs, u \in Virtual :
    /\ AnsweredFeed(p, u)
    /\ \E i, j \in 1..Len(resp[p].entries) :
         /\ resp[p].entries[i].Title = "c.png"
         /\ fs[<<"c.png">>].kind = "dir"
         /\ resp[p].entries[i].Rel = relSubsection
         /\ resp[p].entries[j].Title = "a.epub"
         /\ resp[p].entries[j].Rel = relAcquisition

\* the request path of p holds an invalid percent-escape
BadEscape(u) == \E i \in 1..Len(u) : u[i] = "%zz"

\* C15: a request whose path has an invalid percent-encoding is answered
\* with the error alone: no feed, no file, and the snapshot is as it was.
C15_BadEscapeIsError ==
  [][\A p \in SeqProcs :
       (pc[p] = "idle" /\ pc'[p] # "idle" /\ BadEscape(url'[p]))
         => /\ pc'[p] = "done"
            /\ resp'[p] = ErrResp
            /\ files' = files /\ heap' = heap /\ published' = published]_vars
C15_Witness ==
  \E p \in SeqProcs :
    /\ Answered(p, <<"%zz">>)
    /\ resp[p].status = "error" /\ resp[p].entries = <<>>
    /\ Len(Data(heap, files)) = 2

\* C16: the walk of a / request never aborts early: whatever errors the walk
\* meets, the handler does not crash, the request is answered with the feed,
\* and every non-directory file other than the ones that could not be read is
\* in the snapshot.
C16_WalkNeverAborts ==
  \A p \in SeqProcs :
    Answered(p, DirRoot) =>
      /\ resp[p].status = "feed"
      /\ FilesOf(fs) \ unread[p] \subseteq Range(Paths(Data(heap, files)))

\* C17: a /latest or /titles request is answered with a feed of exactly one
\* entry per snapshot entry, and the relation and media type of each entry are
\* those of the classification of its path when the request is served,
\* whatever the path has become since the walk: a file, a directory, or
\* nothing.
C17_OneEntryPerSnapshotEntry ==
  \A p \in SeqProcs, u \in Virtual :
    Answered(p, u) =>
      /\ resp[p].status = "feed"
      /\ SameBag(Hrefs(resp[p].entries), Paths(published))
      /\ \A i \in 1..Len(resp[p].entries) :
           LET e == resp[p].entries[i]
               t == getPathType(fs, e.Href)
           IN e.Rel = getRel(e.Title, t) /\ e.Type = getType(e.Title, t)

C19_ConcurrentVirtualFeeds ==
  \A p, q \in Procs :
    ( /\ p # q
      /\ Answered(p, Latest)
      /\ url[q] = Titles /\ pc[q] \in {"range", "serve", "done"}
      /\ \A r \in Procs \ {p, q} : pc[r] = "idle"
      /\ nreq = 1 )
    => /\ SameBag(Data(heap, files), published)
       /\ resp[p].status = "feed"
       /\ SameBag(Hrefs(resp[p].entries), Paths(published))
       /\ \A i, j \in 1..Len(resp[p].entries) :
            i < j => PublishedModTime(resp[p].entries[i].Href)
                       >= PublishedModTime(resp[p].entries[j].Href)
       /\ (pc[q] = "done" =>
             /\ resp[q].status = "feed"
             /\ SameBag(Hrefs(resp[q].entries), Paths(published))
             /\ \A i, j \in 1..Len(resp[q].entries) :
                  i < j => NameRank(resp[q].entries[i].Title)
                             <= NameRank(resp[q].entries[j].Title))
====
